---- MODULE Spec2Model ----
(***************************************************************************)
(* Receipt OCR application (streamlit_app.py).                             *)
(*                                                                         *)
(* Text is modelled as a sequence of one-character strings, so that        *)
(* str.split, the "in" test and str.strip are computed character by        *)
(* character.  A pandas DataFrame is a record of its column set and its    *)
(* sequence of rows.  A MongoDB document is a function from keys to        *)
(* values; the stored collection is a sequence of documents.               *)
(***************************************************************************)
EXTENDS Integers, Sequences, FiniteSets, TLC

\* ---------------------------------------------------------------------
\* Bounds
\* ---------------------------------------------------------------------
MaxTextLen == 5      \* longest raw text fed to parse_receipt on its own
MaxStore == 2        \* most documents the collection holds

\* ---------------------------------------------------------------------
\* Characters
\* ---------------------------------------------------------------------
Alphabet == {"a", "b", " ", ":", "\n"}
\* the characters str.strip() removes by default
Whitespace == {" ", "\t", "\n", "\r"}

TextsOver(alphabet, n) == UNION {[1..k -> alphabet] : k \in 0..n}
Texts == TextsOver(Alphabet, MaxTextLen)

\* texts the recognizer returns in a script run: nothing, a line without
\* delimiter, one pair, a blank value, a blank field after a plain line, and
\* twice the same pair
OcrTexts ==
    { <<>>,
      <<"a", "b">>,
      <<"a", ":", " ", "b">>,
      <<"a", ":">>,
      <<"a", "\n", ":", "b">>,
      <<"a", ":", "b", "\n", "a", ":", "b">> }

\* ---------------------------------------------------------------------
\* String primitives used by parse_receipt
\* ---------------------------------------------------------------------
\* sep in s
contains(s, sep) == \E i \in 1..Len(s) : s[i] = sep

\* s.find(sep) counted from 1; only used when contains(s, sep)
find(s, sep) == CHOOSE i \in 1..Len(s) : s[i] = sep /\ \A j \in 1..(i - 1) : s[j] # sep

\* s.split(sep) for a one-character separator: cuts at every separator,
\* never returns an empty list
RECURSIVE split(_, _)
split(s, sep) ==
    IF contains(s, sep)
    THEN <<SubSeq(s, 1, find(s, sep) - 1)>> \o split(SubSeq(s, find(s, sep) + 1, Len(s)), sep)
    ELSE <<s>>

\* a plausible slip: cut at the LAST separator (str.rsplit(sep, 1))
rsplit1(s, sep) ==
    IF contains(s, sep)
    THEN LET i == CHOOSE i \in 1..Len(s) : s[i] = sep /\ \A j \in (i + 1)..Len(s) : s[j] # sep
         IN <<SubSeq(s, 1, i - 1), SubSeq(s, i + 1, Len(s))>>
    ELSE <<s>>

\* s.split(sep, 1): cuts at the first separator only
split1(s, sep) ==
    IF contains(s, sep)
    THEN <<SubSeq(s, 1, find(s, sep) - 1), SubSeq(s, find(s, sep) + 1, Len(s))>>
    ELSE <<s>>

RECURSIVE lstrip(_)
lstrip(s) == IF s # <<>> /\ Head(s) \in Whitespace THEN lstrip(Tail(s)) ELSE s

RECURSIVE rstrip(_)
rstrip(s) == IF s # <<>> /\ s[Len(s)] \in Whitespace THEN rstrip(SubSeq(s, 1, Len(s) - 1)) ELSE s

\* a plausible slip: only the left side is stripped
strip_left_only(s) == lstrip(s)

\* s.strip()
strip(s) == rstrip(lstrip(s))

\* ---------------------------------------------------------------------
\* parse_receipt
\* ---------------------------------------------------------------------
\* pd.DataFrame(list of dicts): no columns at all when the list is empty
DataFrame(data) ==
    [columns |-> IF data = <<>> THEN {} ELSE {"Field", "Value"}, rows |-> data]

\* pd.DataFrame({"Field": [], "Value": []})
EmptyFrame == [columns |-> {"Field", "Value"}, rows |-> <<>>]

\* df.empty
empty(df) == df.columns = {} \/ df.rows = <<>>

\* a plausible slip: lines whose value is blank are skipped
RECURSIVE parse_lines_skip_blank(_)
parse_lines_skip_blank(lines) ==
    IF lines = <<>> THEN <<>>
    ELSE (IF contains(Head(lines), ":") /\ strip(split1(Head(lines), ":")[2]) # <<>>
          THEN <<[Field |-> strip(split1(Head(lines), ":")[1]),
                  Value |-> strip(split1(Head(lines), ":")[2])]>>
          ELSE <<>>) \o parse_lines_skip_blank(Tail(lines))

\* a plausible slip: data.insert(0, ...) instead of data.append(...)
RECURSIVE parse_lines_prepend(_)
parse_lines_prepend(lines) ==
    IF lines = <<>> THEN <<>>
    ELSE parse_lines_prepend(Tail(lines)) \o
         (IF contains(Head(lines), ":")
          THEN <<[Field |-> strip(split1(Head(lines), ":")[1]),
                  Value |-> strip(split1(Head(lines), ":")[2])]>>
          ELSE <<>>)

\* the for loop of parse_receipt: data after the lines have been visited
RECURSIVE parse_lines(_)
parse_lines(lines) ==
    IF lines = <<>> THEN <<>>
    ELSE (IF contains(Head(lines), ":")
          THEN <<[Field |-> strip(split1(Head(lines), ":")[1]),
                  Value |-> strip(split1(Head(lines), ":")[2])]>>
          ELSE <<>>) \o parse_lines(Tail(lines))

parse_receipt(text) ==
    LET df == DataFrame(parse_lines(split(text, "\n")))
    IN IF empty(df) THEN EmptyFrame ELSE df

\* ---------------------------------------------------------------------
\* State of a Streamlit session: every user action re-executes the script
\* ---------------------------------------------------------------------
VARIABLES
    pc,             \* position of the running script
    collection,     \* "bound" / "unbound": is the module-level name defined
    sidebar,        \* "success" / "error" / "none": message of the connect block
    store,          \* documents held by the MongoDB collection
    store_before,   \* the collection's documents when the script run began
    uploaded_file,  \* "none" / "image" / "corrupt": file uploader widget
    button,         \* st.button value of this run (TRUE only after a click)
    checkbox,       \* st.checkbox value (kept between runs)
    extracted_text, \* text returned by ocr_core
    df,             \* parse_receipt(extracted_text)
    updated_df,     \* rows returned by the grid (grid_response['data'])
    records,        \* list handed to collection.insert_many in this run
    insert_result,  \* "none" / "ok" / "failed"
    find_result,    \* "none" / "ok" / "failed"
    stored_df,      \* rows displayed by st.dataframe(stored_df)
    ui,             \* elements rendered by main() in this run
    trace,          \* pipeline stages entered in this run, in order
    failure,        \* exception raised by Image.open / ocr_core in this run
    exc             \* exception that left main() uncaught

vars == <<pc, collection, sidebar, store, store_before, uploaded_file, button,
          checkbox, extracted_text, df, updated_df, records, insert_result,
          find_result, stored_df, ui, trace, failure, exc>>

run_vars == <<extracted_text, df, updated_df, records, insert_result,
              find_result, stored_df, ui, trace, failure, exc>>

\* values the user may type into a grid cell
EditValues == {<<"c">>}

\* the grids the user can leave behind: the rows as extracted, or with one
\* cell retyped
Edits(rows) ==
    {rows} \cup
    {[rows EXCEPT ![i].Field = v] : i \in 1..Len(rows), v \in EditValues} \cup
    {[rows EXCEPT ![i].Value = v] : i \in 1..Len(rows), v \in EditValues}

\* insert_many gives every inserted document an '_id'; documents already in
\* the collection keep theirs
with_ids(docs, n) == [i \in 1..Len(docs) |-> docs[i] @@ ("_id" :> (n + i))]

\* a slip: the identifier is left on the displayed record
keep_id(record) == record

\* record.pop('_id', None)
pop_id(record) == [k \in (DOMAIN record) \ {"_id"} |-> record[k]]

ResetRun ==
    /\ extracted_text' = <<>>
    /\ df' = EmptyFrame
    /\ updated_df' = <<>>
    /\ records' = <<>>
    /\ insert_result' = "none"
    /\ find_result' = "none"
    /\ stored_df' = <<>>
    /\ ui' = {}
    /\ trace' = <<>>
    /\ failure' = "none"
    /\ exc' = "none"
    /\ store_before' = store
    /\ pc' = "module"

Init ==
    /\ pc = "module"
    /\ collection = "unbound"
    /\ sidebar = "none"
    /\ store = <<>>
    /\ store_before = <<>>
    /\ uploaded_file = "none"
    /\ button = FALSE
    /\ checkbox = FALSE
    /\ extracted_text = <<>>
    /\ df = EmptyFrame
    /\ updated_df = <<>>
    /\ records = <<>>
    /\ insert_result = "none"
    /\ find_result = "none"
    /\ stored_df = <<>>
    /\ ui = {}
    /\ trace = <<>>
    /\ failure = "none"
    /\ exc = "none"

\* --- user actions: each one triggers a fresh run of the script ----------
Upload ==
    /\ pc = "done"
    /\ \E f \in {"none", "image", "corrupt"} : uploaded_file' = f
    /\ button' = FALSE
    /\ ResetRun
    /\ UNCHANGED <<collection, sidebar, store, checkbox>>

ClickSave ==
    /\ pc = "done"
    /\ "save_button" \in ui
    /\ button' = TRUE
    /\ ResetRun
    /\ UNCHANGED <<collection, sidebar, store, uploaded_file, checkbox>>

ToggleCheckbox ==
    /\ pc = "done"
    /\ "checkbox" \in ui
    /\ checkbox' = ~checkbox
    /\ button' = FALSE
    /\ ResetRun
    /\ UNCHANGED <<collection, sidebar, store, uploaded_file>>

\* --- module level: try: MongoClient(...) except: st.sidebar.error --------
Connect ==
    /\ pc = "module"
    /\ \E ok \in BOOLEAN :
        /\ collection' = IF ok THEN "bound" ELSE "unbound"
        /\ sidebar' = IF ok THEN "success" ELSE "error"
    /\ pc' = "main"
    /\ UNCHANGED <<store, store_before, uploaded_file, button, checkbox>>
    /\ UNCHANGED run_vars

\* --- main(): no file uploaded ------------------------------------------
NoUpload ==
    /\ pc = "main"
    /\ uploaded_file = "none"
    /\ ui' = ui \cup {"info_upload", "footer"}
    /\ pc' = "done"
    /\ UNCHANGED <<collection, sidebar, store, store_before, uploaded_file, button,
                   checkbox, extracted_text, df, updated_df, records, insert_result,
                   find_result, stored_df, trace, failure, exc>>

\* --- main(): image = Image.open(uploaded_file); st.image(...) -----------
ImageOpen ==
    /\ pc = "main"
    /\ uploaded_file # "none"
    /\ trace' = Append(trace, "decode")
    /\ IF uploaded_file = "image"
       THEN /\ ui' = ui \cup {"image"}
            /\ pc' = "ocr"
            /\ UNCHANGED <<failure, exc>>
       ELSE /\ failure' = "DecodeError"
            /\ exc' = "DecodeError"
            /\ pc' = "done"
            /\ UNCHANGED ui
    /\ UNCHANGED <<collection, sidebar, store, store_before, uploaded_file, button,
                   checkbox, extracted_text, df, updated_df, records, insert_result,
                   find_result, stored_df>>

\* --- main(): extracted_text = ocr_core(image); st.text_area(...) --------
\* a slip: the recognition failure is swallowed and the run goes on
OcrCoreSwallow ==
    /\ pc = "ocr"
    /\ trace' = Append(trace, "recognize")
    /\ \/ /\ \E text \in OcrTexts : extracted_text' = text
          /\ ui' = ui \cup {"text_area"}
          /\ pc' = "parse"
          /\ UNCHANGED <<failure, exc>>
       \/ /\ failure' = "RecognitionError"
          /\ extracted_text' = <<>>
          /\ ui' = ui \cup {"text_area"}
          /\ pc' = "parse"
          /\ UNCHANGED exc
    /\ UNCHANGED <<collection, sidebar, store, store_before, uploaded_file, button,
                   checkbox, df, updated_df, records, insert_result, find_result,
                   stored_df>>

OcrCore ==
    /\ pc = "ocr"
    /\ trace' = Append(trace, "recognize")
    /\ \/ /\ \E text \in OcrTexts : extracted_text' = text
          /\ ui' = ui \cup {"text_area"}
          /\ pc' = "parse"
          /\ UNCHANGED <<failure, exc>>
       \/ /\ failure' = "RecognitionError"
          /\ exc' = "RecognitionError"
          /\ pc' = "done"
          /\ UNCHANGED <<extracted_text, ui>>
    /\ UNCHANGED <<collection, sidebar, store, store_before, uploaded_file, button,
                   checkbox, df, updated_df, records, insert_result, find_result,
                   stored_df>>

\* --- main(): df = parse_receipt(extracted_text); if not df.empty / else --
\* a slip: the grid is offered whatever parse_receipt returned
ParseReceiptAlwaysGrid ==
    /\ pc = "parse"
    /\ trace' = Append(trace, "extract")
    /\ df' = parse_receipt(extracted_text)
    /\ pc' = "grid"
    /\ UNCHANGED <<collection, sidebar, store, store_before, uploaded_file, button,
                   checkbox, extracted_text, updated_df, records, insert_result,
                   find_result, stored_df, ui, failure, exc>>

ParseReceipt ==
    /\ pc = "parse"
    /\ trace' = Append(trace, "extract")
    /\ df' = parse_receipt(extracted_text)
    /\ IF ~empty(df')
       THEN pc' = "grid" /\ UNCHANGED ui
       ELSE pc' = "checkbox" /\ ui' = ui \cup {"warning_no_pairs"}
    /\ UNCHANGED <<collection, sidebar, store, store_before, uploaded_file, button,
                   checkbox, extracted_text, updated_df, records, insert_result,
                   find_result, stored_df, failure, exc>>

\* --- main(): AgGrid(df, ...); updated_df = grid_response['data']; button --
Grid ==
    /\ pc = "grid"
    /\ trace' = Append(trace, "review")
    /\ \E g \in Edits(df.rows) : updated_df' = g
    /\ ui' = ui \cup {"grid", "save_button"}
    /\ pc' = IF button THEN "save" ELSE "checkbox"
    /\ UNCHANGED <<collection, sidebar, store, store_before, uploaded_file, button,
                   checkbox, extracted_text, df, records, insert_result, find_result,
                   stored_df, failure, exc>>

\* --- main(): records = updated_df.to_dict(...); try insert_many except ---
\* a slip: no try/except around insert_many
SaveUnguarded ==
    /\ pc = "save"
    /\ trace' = Append(trace, "persist")
    /\ records' = updated_df
    /\ \/ /\ collection = "bound"
          /\ Len(store) + Len(updated_df) <= MaxStore
          /\ store' = store \o with_ids(updated_df, Len(store))
          /\ insert_result' = "ok"
          /\ ui' = ui \cup {"save_success"}
          /\ pc' = "checkbox"
          /\ UNCHANGED exc
       \/ /\ \E k \in 0..(Len(updated_df) - 1) :
                /\ collection = "unbound" => k = 0
                /\ Len(store) + k <= MaxStore
                /\ store' = store \o with_ids(SubSeq(updated_df, 1, k), Len(store))
          /\ insert_result' = "failed"
          /\ exc' = IF collection = "unbound" THEN "NameError" ELSE "PyMongoError"
          /\ pc' = "done"
          /\ UNCHANGED ui
    /\ UNCHANGED <<collection, sidebar, store_before, uploaded_file, button, checkbox,
                   extracted_text, df, updated_df, find_result, stored_df, failure>>

\* a slip: insert_one(records[0]) instead of insert_many(records)
SaveFirstOnly ==
    /\ pc = "save"
    /\ trace' = Append(trace, "persist")
    /\ records' = updated_df
    /\ \/ /\ collection = "bound"
          /\ Len(store) + Len(updated_df) <= MaxStore
          /\ store' = store \o with_ids(SubSeq(updated_df, 1, 1), Len(store))
          /\ insert_result' = "ok"
          /\ ui' = ui \cup {"save_success"}
       \/ /\ \E k \in 0..(Len(updated_df) - 1) :
                /\ collection = "unbound" => k = 0
                /\ Len(store) + k <= MaxStore
                /\ store' = store \o with_ids(SubSeq(updated_df, 1, k), Len(store))
          /\ insert_result' = "failed"
          /\ ui' = ui \cup {"save_error"}
    /\ pc' = "checkbox"
    /\ UNCHANGED <<collection, sidebar, store_before, uploaded_file, button, checkbox,
                   extracted_text, df, updated_df, find_result, stored_df, failure, exc>>

\* The call either inserts every record (only while the collection name is
\* bound and the store answers) or raises after the store has taken a proper
\* prefix of them; the except branch turns the exception into st.error.
Save ==
    /\ pc = "save"
    /\ trace' = Append(trace, "persist")
    /\ records' = updated_df
    /\ \/ /\ collection = "bound"
          /\ Len(store) + Len(updated_df) <= MaxStore
          /\ store' = store \o with_ids(updated_df, Len(store))
          /\ insert_result' = "ok"
          /\ ui' = ui \cup {"save_success"}
       \/ /\ \E k \in 0..(Len(updated_df) - 1) :
                /\ collection = "unbound" => k = 0
                /\ Len(store) + k <= MaxStore
                /\ store' = store \o with_ids(SubSeq(updated_df, 1, k), Len(store))
          /\ insert_result' = "failed"
          /\ ui' = ui \cup {"save_error"}
    /\ pc' = "checkbox"
    /\ UNCHANGED <<collection, sidebar, store_before, uploaded_file, button, checkbox,
                   extracted_text, df, updated_df, find_result, stored_df, failure, exc>>

\* --- main(): if st.checkbox(...): try list(collection.find()) except -----
ShowStored ==
    /\ pc = "checkbox"
    /\ IF ~checkbox
       THEN /\ ui' = ui \cup {"checkbox", "footer"}
            /\ UNCHANGED <<find_result, stored_df>>
       ELSE \/ /\ collection = "bound"
               /\ find_result' = "ok"
               /\ IF store # <<>>
                  THEN /\ stored_df' = [i \in 1..Len(store) |-> pop_id(store[i])]
                       /\ ui' = ui \cup {"checkbox", "dataframe", "footer"}
                  ELSE /\ ui' = ui \cup {"checkbox", "info_no_data", "footer"}
                       /\ UNCHANGED stored_df
            \/ /\ find_result' = "failed"
               /\ ui' = ui \cup {"checkbox", "fetch_error", "footer"}
               /\ UNCHANGED stored_df
    /\ pc' = "done"
    /\ UNCHANGED <<collection, sidebar, store, store_before, uploaded_file, button,
                   checkbox, extracted_text, df, updated_df, records, insert_result,
                   trace, failure, exc>>

Next ==
    \/ Upload
    \/ ClickSave
    \/ ToggleCheckbox
    \/ Connect
    \/ NoUpload
    \/ ImageOpen
    \/ OcrCore
    \/ ParseReceipt
    \/ Grid
    \/ Save
    \/ ShowStored

Spec == Init /\ [][Next]_vars

\* ---------------------------------------------------------------------
\* parse_receipt on its own: every raw text up to MaxTextLen
\* ---------------------------------------------------------------------
InitExtract ==
    /\ pc = "extract_in"
    /\ extracted_text \in Texts
    /\ collection = "unbound"
    /\ sidebar = "none"
    /\ store = <<>>
    /\ store_before = <<>>
    /\ uploaded_file = "none"
    /\ button = FALSE
    /\ checkbox = FALSE
    /\ df = EmptyFrame
    /\ updated_df = <<>>
    /\ records = <<>>
    /\ insert_result = "none"
    /\ find_result = "none"
    /\ stored_df = <<>>
    /\ ui = {}
    /\ trace = <<>>
    /\ failure = "none"
    /\ exc = "none"

Extract ==
    /\ pc = "extract_in"
    /\ df' = parse_receipt(extracted_text)
    /\ pc' = "extract_out"
    /\ UNCHANGED <<collection, sidebar, store, store_before, uploaded_file, button,
                   checkbox, extracted_text, updated_df, records, insert_result,
                   find_result, stored_df, ui, trace, failure, exc>>

NextExtract == Extract

SpecExtract == InitExtract /\ [][NextExtract]_vars

\* ---------------------------------------------------------------------
\* What the specification says of a raw text, stated on character positions
\* ---------------------------------------------------------------------
NonBlank(s) == {i \in 1..Len(s) : s[i] \notin Whitespace}

\* s without its leading and trailing whitespace
Trimmed(s) ==
    IF NonBlank(s) = {} THEN <<>>
    ELSE SubSeq(s, CHOOSE i \in NonBlank(s) : \A j \in NonBlank(s) : i <= j,
                   CHOOSE i \in NonBlank(s) : \A j \in NonBlank(s) : j <= i)

\* t is s with whitespace, and only whitespace, removed from both ends
IsTrimOf(t, s) ==
    \E i \in 0..Len(s) : \E j \in i..Len(s) :
        /\ t = SubSeq(s, i + 1, j)
        /\ \A k \in 1..i : s[k] \in Whitespace
        /\ \A k \in (j + 1)..Len(s) : s[k] \in Whitespace
        /\ t # <<>> => t[1] \notin Whitespace /\ t[Len(t)] \notin Whitespace

IsTrimmed(s) == s # <<>> => s[1] \notin Whitespace /\ s[Len(s)] \notin Whitespace

\* positions just outside the lines of T: 0, every newline, Len(T) + 1
Cuts(T) == {0, Len(T) + 1} \cup {i \in 1..Len(T) : T[i] = "\n"}

\* the lines of T as pairs of neighbouring cuts
LineSpans(T) ==
    {sp \in Cuts(T) \X Cuts(T) :
        sp[1] < sp[2] /\ \A c \in Cuts(T) : ~(sp[1] < c /\ c < sp[2])}

LineOf(T, sp) == SubSeq(T, sp[1] + 1, sp[2] - 1)

\* the lines of T that hold at least one ':'
DelimiterSpans(T) ==
    {sp \in LineSpans(T) : \E i \in (sp[1] + 1)..(sp[2] - 1) : T[i] = ":"}

\* 1 for the first delimiter-bearing line, 2 for the second, ...
RankOf(T, sp) == Cardinality({o \in DelimiterSpans(T) : o[1] <= sp[1]})

FirstColon(L) == CHOOSE c \in 1..Len(L) : L[c] = ":" /\ \A j \in 1..(c - 1) : L[j] # ":"

ExpectedRecord(L) ==
    [Field |-> Trimmed(SubSeq(L, 1, FirstColon(L) - 1)),
     Value |-> Trimmed(SubSeq(L, FirstColon(L) + 1, Len(L)))]

\* ---------------------------------------------------------------------
\* Claims about parse_receipt (checked under SpecExtract)
\* ---------------------------------------------------------------------
\* C1: parse_receipt returns exactly as many records as the text has
\* newline-separated lines holding at least one ':'; lines without ':'
\* give no record.
C1_RecordCount ==
    pc = "extract_out" =>
        Len(df.rows) = Cardinality(DelimiterSpans(extracted_text))

\* a text mixing lines with and without ':' has been parsed
C1_Witness ==
    /\ pc = "extract_out"
    /\ Cardinality(LineSpans(extracted_text)) = 3
    /\ Cardinality(DelimiterSpans(extracted_text)) = 2
    /\ Len(df.rows) = 2

\* C2: for every line L holding ':', the record emitted for L has as field
\* the trimmed text before the FIRST ':' of L and as value the trimmed
\* text after it, further ':' characters staying in the value.
C2_FirstColonSplit ==
    pc = "extract_out" =>
        \A sp \in DelimiterSpans(extracted_text) :
            LET L == LineOf(extracted_text, sp)
                n == RankOf(extracted_text, sp)
            IN /\ n \in 1..Len(df.rows)
               /\ \E c \in 1..Len(L) :
                    /\ L[c] = ":"
                    /\ \A j \in 1..(c - 1) : L[j] # ":"
                    /\ IsTrimOf(df.rows[n].Field, SubSeq(L, 1, c - 1))
                    /\ IsTrimOf(df.rows[n].Value, SubSeq(L, c + 1, Len(L)))

\* a line shaped like "a: b:a" has been parsed: the value keeps its ':'
C2_Witness ==
    /\ pc = "extract_out"
    /\ extracted_text = <<"a", ":", " ", "b", ":">>
    /\ df.rows = <<[Field |-> <<"a">>, Value |-> <<"b", ":">>]>>

\* C3: the records come in the order of their source lines: the i-th record
\* is the record of the i-th delimiter-bearing line, nothing is reordered,
\* merged or deduplicated.
C3_OrderPreserved ==
    pc = "extract_out" =>
        /\ Len(df.rows) = Cardinality(DelimiterSpans(extracted_text))
        /\ \A i \in 1..Len(df.rows) :
            \E sp \in DelimiterSpans(extracted_text) :
                /\ RankOf(extracted_text, sp) = i
                /\ df.rows[i] = ExpectedRecord(LineOf(extracted_text, sp))

\* two identical delimiter lines have been parsed into two records
C3_Witness ==
    /\ pc = "extract_out"
    /\ extracted_text = <<"a", ":", "\n", "a", ":">>
    /\ Len(df.rows) = 2
    /\ df.rows[1] = df.rows[2]

\* C4 as written: every record has a field and a value that are trimmed
\* and never empty after trimming.
C4_TrimmedNeverEmpty ==
    pc = "extract_out" =>
        \A i \in 1..Len(df.rows) :
            /\ IsTrimmed(df.rows[i].Field) /\ df.rows[i].Field # <<>>
            /\ IsTrimmed(df.rows[i].Value) /\ df.rows[i].Value # <<>>

\* C4 as amended: every record has a field and a value without leading or
\* trailing whitespace; either may be empty.
C4_Trimmed ==
    pc = "extract_out" =>
        \A i \in 1..Len(df.rows) :
            /\ IsTrimmed(df.rows[i].Field)
            /\ IsTrimmed(df.rows[i].Value)

\* a line with whitespace around both parts has been parsed
C4_Witness ==
    /\ pc = "extract_out"
    /\ extracted_text = <<" ", "a", ":", "b", " ">>
    /\ df.rows = <<[Field |-> <<"a">>, Value |-> <<"b">>]>>

\* ---------------------------------------------------------------------
\* Claims about the script run (checked under Spec)
\* ---------------------------------------------------------------------
Stages == <<"decode", "recognize", "extract", "review", "persist">>

Entered(stage) == \E i \in 1..Len(trace) : trace[i] = stage

\* C5: after insert_many(R) has succeeded, a following listing of the
\* collection shows every field/value pair of R, next to what the
\* collection held before.
C5_PersistThenList ==
    (pc = "done" /\ insert_result = "ok" /\ find_result = "ok") =>
        /\ \A i \in 1..Len(records) :
            \E j \in 1..Len(stored_df) :
                /\ stored_df[j].Field = records[i].Field
                /\ stored_df[j].Value = records[i].Value
        /\ \A i \in 1..Len(store_before) :
            \E j \in 1..Len(stored_df) :
                /\ stored_df[j].Field = store_before[i].Field
                /\ stored_df[j].Value = store_before[i].Value

\* records were saved into a collection that was not empty, then listed
C5_Witness ==
    /\ pc = "done"
    /\ insert_result = "ok"
    /\ find_result = "ok"
    /\ store_before # <<>>
    /\ records # <<>>
    /\ "dataframe" \in ui

\* C6: every record shown by the stored-data view has lost its '_id' and
\* kept the other fields exactly as they are stored.
C6_IdentifierStripped ==
    (pc = "done" /\ "dataframe" \in ui) =>
        /\ Len(stored_df) = Len(store)
        /\ \A j \in 1..Len(stored_df) :
            /\ "_id" \in DOMAIN store[j]
            /\ "_id" \notin DOMAIN stored_df[j]
            /\ DOMAIN stored_df[j] = (DOMAIN store[j]) \ {"_id"}
            /\ \A k \in DOMAIN stored_df[j] : stored_df[j][k] = store[j][k]

\* the view shows the documents of two separate saves
C6_Witness ==
    /\ pc = "done"
    /\ "dataframe" \in ui
    /\ Len(stored_df) = 2
    /\ store_before # <<>>
    /\ insert_result = "none"

\* C7: when recognition succeeds and no line holds ':', parse_receipt
\* returns an empty frame without raising, the run shows the 'no key-value
\* pairs' warning, offers neither grid nor save button, and this outcome is
\* not the one of a recognition failure.
C7_EmptyExtraction ==
    /\ (Entered("extract") /\ pc # "parse" /\ ~contains(extracted_text, ":")) =>
        /\ df.rows = <<>>
        /\ pc \in {"checkbox", "done"}
        /\ failure = "none" /\ exc = "none"
        /\ "warning_no_pairs" \in ui
        /\ "grid" \notin ui /\ "save_button" \notin ui
        /\ ~Entered("review") /\ ~Entered("persist")
    /\ failure # "none" => "warning_no_pairs" \notin ui
    /\ "warning_no_pairs" \in ui => ~contains(extracted_text, ":")

\* a run ended on the warning for a non-empty text without ':'
C7_Witness ==
    /\ pc = "done"
    /\ extracted_text = <<"a", "b">>
    /\ "warning_no_pairs" \in ui
    /\ "text_area" \in ui

\* C8: the stages of a run are entered in the order decode, recognize,
\* extract, review, persist, each at most once; when Image.open or ocr_core
\* raises, the exception is not swallowed and the run stops there: no
\* extraction, no insert, and no second recognition.
C8_StageOrderAndHalt ==
    /\ \E n \in 0..Len(Stages) : trace = SubSeq(Stages, 1, n)
    /\ failure # "none" =>
        /\ exc = failure
        /\ pc = "done"
        /\ ~Entered("extract") /\ ~Entered("review") /\ ~Entered("persist")
        /\ insert_result = "none" /\ store = store_before
        /\ "grid" \notin ui /\ "save_button" \notin ui
    /\ failure = "DecodeError" => trace = <<"decode">>
    /\ failure = "RecognitionError" => trace = <<"decode", "recognize">>

\* the recognizer raised in a run started by a click on the save button
C8_Witness ==
    /\ pc = "done"
    /\ failure = "RecognitionError"
    /\ button
    /\ collection = "bound"

\* C9: a collection that could not be bound at startup, or a store that
\* fails when called, costs only messages: the upload, the recognition, the
\* extraction and the grid complete as usual, and saving or listing ends in
\* an error message, not in an exception.
C9_StoreFailureNonFatal ==
    /\ exc \in {"none", "DecodeError", "RecognitionError"}
    /\ (pc # "module" /\ collection = "unbound") =>
        /\ sidebar = "error"
        /\ insert_result # "ok" /\ find_result # "ok"
        /\ store = store_before
        /\ (pc = "done" /\ uploaded_file # "none" /\ failure = "none") =>
            /\ {"image", "text_area", "checkbox", "footer"} \subseteq ui
            /\ contains(extracted_text, ":") => {"grid", "save_button"} \subseteq ui
            /\ button /\ "grid" \in ui => "save_error" \in ui /\ "save_success" \notin ui
            /\ checkbox => "fetch_error" \in ui /\ "dataframe" \notin ui
    /\ (insert_result = "failed" /\ pc \in {"checkbox", "done"}) =>
        "save_error" \in ui /\ "save_success" \notin ui
    /\ find_result = "failed" => "fetch_error" \in ui /\ "dataframe" \notin ui

\* without a collection, a run showed the grid, then failed to save and to
\* list with the two error messages
C9_Witness ==
    /\ pc = "done"
    /\ collection = "unbound"
    /\ {"grid", "save_error", "fetch_error", "footer"} \subseteq ui
    /\ exc = "none"

\* C10: every error is turned into a message inside main(): no exception
\* leaves main(), and a run that had an upload ends with the stored-data
\* checkbox on offer for the next action; a failed insert is reported once.
C10_AllErrorsRecovered ==
    /\ exc = "none"
    /\ (pc = "done" /\ uploaded_file # "none") => "checkbox" \in ui
    /\ insert_result = "failed" /\ pc \in {"checkbox", "done"} => "save_error" \in ui

====
